---- MODULE Spec2Model ----
(***************************************************************************)
(* A model of httpd.py: one worker process of the static-file HTTP/1.0     *)
(* server (WebServer.serve_forever), the per-connection RequestHandler and *)
(* the pure string functions the handler is built from.                    *)
(*                                                                         *)
(* Representation of Python values.  A str or bytes value is a sequence of *)
(* tokens.  A token is one special character (" ", "/", "?", "#", ":",     *)
(* "[", "\r", "\n", a percent escape such as "%3F", a non-ASCII byte such  *)
(* as "xC3") or a maximal run of ordinary characters ("GET", "HTTP/1.0",   *)
(* "index.html").  File contents are sequences of single bytes, so that    *)
(* Len is the size in bytes.  None is the empty sequence.                  *)
(***************************************************************************)
EXTENDS Integers, Sequences, FiniteSets, TLC

(***************************************************************************)
(* Bounds of the model.                                                    *)
(***************************************************************************)
NumConns == 2

Conns == 1..NumConns

(***************************************************************************)
(* Module constants, httpd.py lines 13-23.                                 *)
(***************************************************************************)
OK == 200
FORBIDDEN == 403
NOT_FOUND == 404
NOT_ALLOWED == 405

CODES_MAPPING ==
  (OK :> "OK") @@ (FORBIDDEN :> "Forbidden") @@ (NOT_FOUND :> "Not Found")
  @@ (NOT_ALLOWED :> "Method Not Allowed")

(***************************************************************************)
(* Class attributes of RequestHandler, httpd.py lines 27-34.               *)
(***************************************************************************)
_http_protocol == "HTTP/1.0"
_server_name == "CustomWebServer"
_buffer_size == 1024
_base_delimiter == <<"\r", "\n">>
_head_delimiter == <<"\r", "\n", "\r", "\n">>
_index_file == <<"index.html">>
_methods == {<<"GET">>, <<"HEAD">>}

request_queue_size == 5

(***************************************************************************)
(* Generic helpers (evaluation order, Python str methods).                 *)
(***************************************************************************)
\* The element of a one-element set.  Let({F(x) : x \in {e}}) is F(e) with e
\* evaluated once, however often F uses x.
Let(S) == CHOOSE r \in S : TRUE

\* the k-th smallest element of a set of numbers
Kth(P, k) == CHOOSE i \in P : Cardinality({j \in P : j <= i}) = k

\* s[i:] with a 1-based i
From(s, i) == SubSeq(s, i, Len(s))

\* s.startswith(p)
StartsWith(s, p) == Len(s) >= Len(p) /\ SubSeq(s, 1, Len(p)) = p

\* s.endswith(p)
EndsWith(s, p) == Len(s) >= Len(p) /\ SubSeq(s, Len(s) - Len(p) + 1, Len(s)) = p

\* the 1-based indices at which d occurs in s
Occurrences(s, d) ==
  {i \in 1..(Len(s) - Len(d) + 1) : SubSeq(s, i, i + Len(d) - 1) = d}

\* s.find(d): the 1-based index of the first occurrence of d, 0 when absent
\* (Python's -1)
Find(s, d) ==
  Let({IF hits = {} THEN 0 ELSE Kth(hits, 1) : hits \in {Occurrences(s, d)}})

\* s.split(sep) for a separator that cannot overlap itself ("\r\n", "/")
SplitAt(s, sep, P) ==
  [k \in 1..(Cardinality(P) + 1) |->
     SubSeq(s, IF k = 1 THEN 1 ELSE Kth(P, k - 1) + Len(sep),
               IF k = Cardinality(P) + 1 THEN Len(s) ELSE Kth(P, k) - 1)]

SplitSep(s, sep) == Let({SplitAt(s, sep, P) : P \in {Occurrences(s, sep)}})

\* the characters str.split() treats as separators
Whitespace == {" ", "\t", "\r", "\n"}

\* s.split(): the maximal runs of non-whitespace, empty runs dropped
WordStarts(s) ==
  {i \in 1..Len(s) : s[i] \notin Whitespace /\ (i = 1 \/ s[i - 1] \in Whitespace)}

WordEnds(s) ==
  {i \in 1..Len(s) :
     s[i] \notin Whitespace /\ (i = Len(s) \/ s[i + 1] \in Whitespace)}

Words(s, B, E) ==
  [k \in 1..Cardinality(B) |-> SubSeq(s, Kth(B, k), Kth(E, k))]

SplitWs(s) ==
  Let({Words(s, B[1], B[2]) : B \in {<<WordStarts(s), WordEnds(s)>>}})

\* the concatenation of the chunks of a chunk list
RECURSIVE Flatten(_)
Flatten(ss) == IF ss = <<>> THEN <<>> ELSE Head(ss) \o Flatten(Tail(ss))

(***************************************************************************)
(* bytes.decode("utf8"), httpd.py line 65, applied to one recv chunk.      *)
(* ASCII tokens decode to themselves; the lead byte xC3 followed by the    *)
(* continuation byte xA9 decodes to one character; a lead byte at the end  *)
(* of the chunk, a stray continuation byte and the byte xFF raise          *)
(* UnicodeDecodeError (ok = FALSE).                                        *)
(***************************************************************************)
LeadBytes == {"xC3"}
ContBytes == {"xA9"}
InvalidBytes == {"xFF"}

\* the decoding of val[i:], given as the characters decoded so far
RECURSIVE decode_from(_, _, _)
decode_from(val, i, text) ==
  IF i > Len(val) THEN [ok |-> TRUE, text |-> text]
  ELSE IF val[i] \in LeadBytes
  THEN IF i + 1 <= Len(val) /\ val[i + 1] \in ContBytes
       THEN decode_from(val, i + 2, Append(text, "U+00E9"))
       ELSE [ok |-> FALSE, text |-> <<>>]
  ELSE IF val[i] \in ContBytes \cup InvalidBytes
  THEN [ok |-> FALSE, text |-> <<>>]
  ELSE decode_from(val, i + 1, Append(text, val[i]))

decode(val) == decode_from(val, 1, <<>>)

(***************************************************************************)
(* urllib.parse.urlparse(url).path, httpd.py line 83.  The scheme (a       *)
(* leading alphabetic word before ":") is removed, then a network location *)
(* introduced by "//", then the fragment after "#", then the query after   *)
(* "?".  A network location with an unmatched "[" or "]" raises ValueError *)
(* (ok = FALSE).                                                           *)
(***************************************************************************)
SchemeWords == {"http", "x"}

UrlAfterScheme(url) ==
  IF Len(url) >= 2 /\ url[1] \in SchemeWords /\ url[2] = ":"
  THEN From(url, 3) ELSE url

\* _splitnetloc(url, 2): the index of the first of "/", "?", "#" after the
\* leading "//", Len(url) + 1 when there is none
NetlocEnd(url) ==
  Let({IF ds = {} THEN Len(url) + 1 ELSE Kth(ds, 1)
       : ds \in {{i \in 3..Len(url) : url[i] \in {"/", "?", "#"}}}})

HasNetloc(url) == StartsWith(url, <<"/", "/">>)

Netloc(url) == SubSeq(url, 3, NetlocEnd(url) - 1)

InSeq(x, s) == \E i \in 1..Len(s) : s[i] = x

InvalidNetloc(n) == InSeq("[", n) # InSeq("]", n)

CutAt(s, ch) ==
  Let({IF i = 0 THEN s ELSE SubSeq(s, 1, i - 1) : i \in {Find(s, <<ch>>)}})

AfterNetloc(u) == IF HasNetloc(u) THEN From(u, NetlocEnd(u)) ELSE u

\* the path of a url u without its scheme
PathOf(u) ==
  IF HasNetloc(u) /\ InvalidNetloc(Netloc(u)) THEN [ok |-> FALSE, path |-> <<>>]
  ELSE Let({[ok |-> TRUE, path |-> CutAt(v, "?")]
            : v \in {CutAt(AfterNetloc(u), "#")}})

urlparse_path(url) == Let({PathOf(u) : u \in {UrlAfterScheme(url)}})

(***************************************************************************)
(* urllib.parse.unquote, httpd.py line 83: every valid %xx escape is       *)
(* replaced by its character, anything else is kept.                       *)
(***************************************************************************)
PercentTable ==
  ("%2F" :> "/") @@ ("%3F" :> "?") @@ ("%23" :> "#") @@ ("%2E" :> ".")
  @@ ("%20" :> " ") @@ ("%00" :> "NUL")

unquote(s) ==
  [i \in 1..Len(s) |->
     IF s[i] \in DOMAIN PercentTable THEN PercentTable[s[i]] ELSE s[i]]

(***************************************************************************)
(* os.path.join(router, index_file) for a router that ends with "/",       *)
(* httpd.py line 85.                                                       *)
(***************************************************************************)
path_join(a, b) == IF EndsWith(a, <<"/">>) \/ a = <<>> THEN a \o b ELSE a \o <<"/">> \o b

(***************************************************************************)
(* os.path.realpath, httpd.py line 86.  The path is made absolute with the *)
(* working directory of the process, then split at "/"; empty and "."      *)
(* segments are dropped and ".." removes the segment before it (none at    *)
(* the root).  The directories the worker resolves through hold no         *)
(* symbolic links.  A path with an embedded NUL raises ValueError.         *)
(***************************************************************************)
Cwd == <<"/", "srv">>

IsDot(seg) == seg = <<".">>

IsDotDot(seg) == seg = <<"..">> \/ seg = <<".", ".">>

\* a normalization that keeps the ".." segments
NormStep_keepdotdot(acc, g) ==
  IF g = <<>> \/ IsDot(g) THEN acc ELSE Append(acc, g)

\* the segments kept so far, after the segment g
NormStep(acc, g) ==
  IF g = <<>> \/ IsDot(g) THEN acc
  ELSE IF IsDotDot(g)
  THEN (IF acc = <<>> THEN acc ELSE SubSeq(acc, 1, Len(acc) - 1))
  ELSE Append(acc, g)

RECURSIVE NormSegs(_, _, _)
NormSegs(segs, i, acc) ==
  IF i > Len(segs) THEN acc
  ELSE Let({NormSegs(segs, i + 1, a) : a \in {NormStep(acc, segs[i])}})

RECURSIVE JoinSegs(_, _, _)
JoinSegs(segs, i, acc) ==
  IF i > Len(segs) THEN acc
  ELSE JoinSegs(segs, i + 1, acc \o <<"/">> \o segs[i])

Absolute(p) == IF StartsWith(p, <<"/">>) THEN p ELSE Cwd \o <<"/">> \o p

\* the normalized form of an absolute path given by its parts
Normalized(parts) ==
  Let({IF segs = <<>> THEN <<"/">> ELSE JoinSegs(segs, 1, <<>>)
       : segs \in {NormSegs(parts, 1, <<>>)}})

abspath(p) ==
  Let({Normalized(parts) : parts \in {SplitSep(Absolute(p), <<"/">>)}})

realpath(p) ==
  IF InSeq("NUL", p) THEN [ok |-> FALSE, path |-> <<>>]
  ELSE [ok |-> TRUE, path |-> abspath(p)]

(***************************************************************************)
(* The configuration and the file system the worker runs against.          *)
(* document_root is the command line's default, httpd.py line 203; paths   *)
(* the operating system is given are resolved from the working directory.  *)
(***************************************************************************)
document_root == <<".">>

HelloWorld == <<"h", "e", "l", "l", "o", " ", "w", "o", "r", "l", "d">>

FileSystem ==
  (<<"/", "srv">> :> [kind |-> "dir", data |-> <<>>])
  @@ (<<"/", "srv", "/", "index.html">> :> [kind |-> "file", data |-> HelloWorld])
  @@ (<<"/", "srv", "/", "d">> :> [kind |-> "dir", data |-> <<>>])
  @@ (<<"/", "srv", "/", "d", "/", "index.html">> :> [kind |-> "file", data |-> <<"h", "i">>])
  @@ (<<"/", "srv", "/", "e.txt">> :> [kind |-> "file", data |-> <<>>])
  @@ (<<"/", "srv", "/", "a", "?", "b">> :> [kind |-> "file", data |-> <<"q">>])

\* os.path.exists in place of os.path.isfile
isfile_exists(path) == abspath(path) \in DOMAIN FileSystem

\* os.path.isfile(path), httpd.py line 87
isfile(path) ==
  \E p \in {abspath(path)} :
    p \in DOMAIN FileSystem /\ FileSystem[p].kind = "file"

\* os.path.getsize(path) when stat succeeds, httpd.py line 94
getsize(path) == Len(FileSystem[abspath(path)].data)

\* f.read(size) on the opened file, httpd.py lines 128-129
read_file(path, size) ==
  Let({SubSeq(data, 1, IF size < Len(data) THEN size ELSE Len(data))
       : data \in {FileSystem[abspath(path)].data}})

\* mimetypes.guess_type(path)[0], httpd.py line 90; "" is None
MimeTable == ("index.html" :> "text/html") @@ ("e.txt" :> "text/plain")

guess_type(path) ==
  IF path[Len(path)] \in DOMAIN MimeTable THEN MimeTable[path[Len(path)]]
  ELSE ""

\* str(size) and int(text) for the sizes of the files above
MaxFileSize == Len(HelloWorld)

str(n) == ToString(n)

int(text) == CHOOSE n \in 0..MaxFileSize : ToString(n) = text

\* method.upper(), httpd.py lines 88 and 99
upper(method) ==
  [i \in 1..Len(method) |->
     CASE method[i] = "get" -> "GET"
       [] method[i] = "Head" -> "HEAD"
       [] OTHER -> method[i]]

(***************************************************************************)
(* RequestHandler.__init__, httpd.py lines 40-46: the headers of a new     *)
(* handler, in insertion order.                                            *)
(***************************************************************************)
HeaderOrder ==
  <<"Content-Type", "Content-Length", "Connection", "Server", "Date">>

InitHeaders ==
  ("Content-Type" :> "text/html") @@ ("Content-Length" :> "0")
  @@ ("Connection" :> "close") @@ ("Server" :> _server_name)
  @@ ("Date" :> "utcnow")

\* RequestHandler._set_headers, httpd.py lines 101-103
_set_headers(headers, k, v) == [headers EXCEPT ![k] = v]

None == <<>>

(***************************************************************************)
(* RequestHandler._parse_request, httpd.py lines 71-99.  stat_ok is the    *)
(* outcome of os.path.getsize.  raised = TRUE stands for an exception that *)
(* leaves the method (ValueError from urlparse or realpath).               *)
(***************************************************************************)
Outcome(code, method, path, headers) ==
  [raised |-> FALSE, stat_failed |-> FALSE, code |-> code, method |-> method,
   path |-> path, headers |-> headers]

Raised(headers) ==
  [raised |-> TRUE, stat_failed |-> FALSE, code |-> 0, method |-> None,
   path |-> None, headers |-> headers]

\* lines 75-76: the tokens of the first line
RequestLine(raw_request) ==
  Let({SplitWs(request[1]) : request \in {SplitSep(raw_request, _base_delimiter)}})

\* a case-insensitive comparison of the method
MethodAllowed_upper(method) == upper(method) \in _methods

\* line 80
MethodAllowed(method) == method \in _methods

\* the index file is never appended
WithIndex_never(router) == router

\* lines 84-85
WithIndex(router) ==
  IF EndsWith(router, <<"/">>) THEN path_join(router, _index_file) ELSE router

\* lines 90-92: the guessed type, when there is one, replaces the default
WithType(headers, content_type) ==
  IF content_type # "" THEN _set_headers(headers, "Content-Type", content_type)
  ELSE headers

\* Content-Length is left at its initial value
FileOutcome_nolength(method, path, headers, stat_ok) ==
  IF stat_ok THEN Outcome(OK, upper(method), path, headers)
  ELSE [Outcome(NOT_ALLOWED, None, None, headers) EXCEPT !.stat_failed = TRUE]

\* a stat failure answered with the method and the path kept
FileOutcome_keeps(method, path, headers, stat_ok) ==
  IF stat_ok
  THEN Outcome(OK, upper(method), path,
               _set_headers(WithType(headers, guess_type(path)),
                            "Content-Length", str(getsize(path))))
  ELSE [Outcome(NOT_ALLOWED, upper(method), path,
                WithType(headers, guess_type(path)))
          EXCEPT !.stat_failed = TRUE]

\* lines 90-99, for a path that is a regular file
FileOutcome(method, path, headers, stat_ok) ==
  IF stat_ok
  THEN Outcome(OK, upper(method), path,
               _set_headers(WithType(headers, guess_type(path)),
                            "Content-Length", str(getsize(path))))
  ELSE [Outcome(NOT_ALLOWED, None, None, WithType(headers, guess_type(path)))
          EXCEPT !.stat_failed = TRUE]

\* lines 83-85: the router of a url, when urlparse does not raise
Router(parsed) == Let({WithIndex(router) : router \in {unquote(parsed.path)}})

\* a path that exists but is no regular file answered 403
Lookup_forbidden(method, path, headers, stat_ok) ==
  IF isfile(path) THEN FileOutcome(method, path, headers, stat_ok)
  ELSE IF isfile_exists(path)
  THEN Outcome(FORBIDDEN, upper(method), path, headers)
  ELSE Outcome(NOT_FOUND, upper(method), path, headers)

\* lines 86-99, for the router's real path
Lookup(method, path, headers, stat_ok) ==
  IF ~isfile(path) THEN Outcome(NOT_FOUND, upper(method), path, headers)
  ELSE FileOutcome(method, path, headers, stat_ok)

\* lines 83-99, for an allowed method
\* lines 86-99, for the result of os.path.realpath
Located(method, real, headers, stat_ok) ==
  IF ~real.ok THEN Raised(headers)
  ELSE Lookup(method, document_root \o real.path, headers, stat_ok)

\* lines 83-99, for the result of urlparse
Routed(method, parsed, headers, stat_ok) ==
  IF ~parsed.ok THEN Raised(headers)
  ELSE Let({Located(method, real, headers, stat_ok)
            : real \in {realpath(Router(parsed))}})

Resolve(method, url, headers, stat_ok) ==
  Let({Routed(method, parsed, headers, stat_ok)
       : parsed \in {urlparse_path(url)}})

\* a parser that ignores what follows the third token of the line
_parse_request_lenient(raw_request, headers, stat_ok) ==
  Let({IF Len(line) < 3 THEN Outcome(NOT_ALLOWED, None, None, headers)
       ELSE IF ~MethodAllowed(line[1])
       THEN Outcome(NOT_ALLOWED, None, None, headers)
       ELSE Resolve(line[1], line[2], headers, stat_ok)
       : line \in {RequestLine(raw_request)}})

\* lines 71-99
_parse_request(raw_request, headers, stat_ok) ==
  Let({IF Len(line) # 3 THEN Outcome(NOT_ALLOWED, None, None, headers)
       ELSE IF ~MethodAllowed(line[1])
       THEN Outcome(NOT_ALLOWED, None, None, headers)
       ELSE Resolve(line[1], line[2], headers, stat_ok)
       : line \in {RequestLine(raw_request)}})

(***************************************************************************)
(* RequestHandler._send_response and _get_response_body, httpd.py lines    *)
(* 105-130: the bytes handed to sendall.                                   *)
(***************************************************************************)
primary_line(response_code) ==
  _http_protocol \o " " \o ToString(response_code) \o " "
  \o CODES_MAPPING[response_code]

\* sep.join(lines), from line i on
RECURSIVE JoinLines(_, _, _)
JoinLines(lines, sep, i) ==
  IF i > Len(lines) THEN <<>>
  ELSE IF i = Len(lines) THEN <<lines[i]>>
  ELSE <<lines[i]>> \o sep \o JoinLines(lines, sep, i + 1)

headers_line(headers) ==
  JoinLines([i \in 1..Len(HeaderOrder) |->
               HeaderOrder[i] \o ": " \o headers[HeaderOrder[i]]],
            _base_delimiter, 1)

\* lines 106-114
resp_head(response_code, headers) ==
  <<primary_line(response_code)>> \o _base_delimiter \o headers_line(headers)
  \o _head_delimiter

\* the method is not consulted
WantsBody_anymethod(response_code, method) == response_code = OK

\* line 116
WantsBody(response_code, method) == method = <<"GET">> /\ response_code = OK

\* lines 123-130, when open succeeds
_get_response_body(path, headers) ==
  IF path = None THEN <<>>
  ELSE read_file(path, int(headers["Content-Length"]))

\* line 119: resp + body if body else resp
Payload(resp, body) == IF body # <<>> THEN resp \o body ELSE resp

\* the part of a payload after the header block
BodyOf(payload) == From(payload, Find(payload, _head_delimiter) + Len(_head_delimiter))

\* the part of a payload up to and including the header block
HeadOf(payload) == SubSeq(payload, 1, Find(payload, _head_delimiter) + Len(_head_delimiter) - 1)

(***************************************************************************)
(* The requests a client may send: the chunks recv returns, in order, and  *)
(* whether the client shuts its side down after the last one (eof).  No    *)
(* chunk is longer than _buffer_size.                                      *)
(***************************************************************************)
Version == <<" ", "HTTP/1.0">>

Get(url) == <<"GET", " ">> \o url \o Version

Whole(text) == [chunks |-> <<text \o _head_delimiter>>, eof |-> FALSE]

Requests ==
  { Whole(Get(<<"/">>)),
    [chunks |-> <<Get(<<"/">>) \o <<"\r", "\n", "\r">>, <<"\n">>>>, eof |-> FALSE],
    [chunks |-> <<Get(<<"/">>) \o _head_delimiter, <<"x">>>>, eof |-> FALSE],
    [chunks |-> <<Get(<<"/">>) \o <<"\r", "\n">>>>, eof |-> TRUE],
    [chunks |-> <<>>, eof |-> TRUE],
    Whole(<<"HEAD", " ", "/", "index.html">> \o Version),
    Whole(<<"HEAD", " ", "/", "d", "/">> \o Version),
    Whole(<<"HEAD", " ", "/", "missing.txt">> \o Version),
    Whole(Get(<<"/", "missing.txt">>)),
    Whole(Get(<<"/", "d">>)),
    Whole(Get(<<"/", "d", "/">>)),
    Whole(Get(<<"/", "d", "/", "..", "/">>)),
    Whole(Get(<<"/", "..", "/", "..", "/", "e.txt">>)),
    Whole(Get(<<"/", "missing", "/">>)),
    Whole(Get(<<"/", "e.txt">>)),
    Whole(Get(<<"/", "index.html", "?", "q">>)),
    Whole(Get(<<"/", "a", "%3F", "b">>)),
    Whole(Get(<<"/", "/", "[", "x", "/">>)),
    Whole(Get(<<"/", "%00">>)),
    Whole(<<"POST", " ", "/">> \o Version),
    Whole(<<"POST", " ", "/", "missing.txt">> \o Version),
    Whole(<<"get", " ", "/">> \o Version),
    Whole(<<"Head", " ", "/", "index.html">> \o Version),
    Whole(<<"GET", " ", "/">>),
    Whole(<<"GET">>),
    Whole(Get(<<"/">>) \o <<" ", "x">>),
    Whole(<<"GET", "\n", "/", "\t", "HTTP/1.0">>),
    Whole(Get(<<"/">>) \o <<"\r", "\n", "X:", " ", "xFF">>),
    Whole(<<"POST", " ", "/">> \o Version \o <<"\r", "\n", "X:", " ", "xFF">>),
    Whole(Get(<<"/">>) \o <<"\r", "\n", "X:", " ", "xC3", "xA9">>),
    [chunks |-> <<Get(<<"/">>) \o <<"\r", "\n", "X:", " ", "xC3">>,
                  <<"xA9">> \o _head_delimiter>>, eof |-> FALSE] }

NoRequest == [chunks |-> <<>>, eof |-> FALSE]

(***************************************************************************)
(* State.                                                                  *)
(*   lsock    the worker's listening socket: "open" or "closed"            *)
(*   wpc      where the worker is in serve_forever: "accept" (line 163),   *)
(*            "wait" (lines 164-171, waiting for the submitted future) or  *)
(*            "crashed" (an exception left serve_forever)                  *)
(*   cur      the connection whose handler the worker waits for, 0 if none *)
(*   backlog  the connections the kernel holds for accept, oldest first    *)
(*   acceptErrs  the accept failures logged so far (line 173)              *)
(*   conn     per connection: the accepted socket, the client and the      *)
(*            handler thread                                               *)
(*                                                                         *)
(* The top-level process, main:                                            *)
(*   mpc       its position: "create" (lines 181-186), "start" (line 187,  *)
(*             before the fork), "record" (line 187, the child is forked   *)
(*             and Process.start has not yet stored its handle), "join"    *)
(*             (lines 189-190), "except" (lines 191-194), "returned",      *)
(*             "stopped" (returned from the except clause), "aborted" (an  *)
(*             exception left the except clause)                           *)
(*   processes the list of line 178; popen tells whether the Process       *)
(*             object holds the handle of its child, child is "none",      *)
(*             "running", "exited" or "terminated"                         *)
(*   idx       the position of the loop of line 189 or of line 192         *)
(***************************************************************************)
VARIABLES lsock, wpc, cur, backlog, acceptErrs, conn,
          mpc, processes, idx

workervars == <<lsock, wpc, cur, backlog, acceptErrs, conn>>

mainvars == <<mpc, processes, idx>>

vars == <<lsock, wpc, cur, backlog, acceptErrs, conn, mpc, processes, idx>>

MaxAcceptErrs == 2

\* the workers argument of main
NumWorkers == 3

\* sock: "none" (not connected), "pending" (in the backlog), "open", "closed"
\* peer: "live", "stalled" (sends and reads nothing for now), "reset",
\*     "gone" (the server closed the connection)
\* pc: "idle", "reading" (_read_request), "parse" (before _parse_request),
\*     "respond" (before _send_response), "sending" (at sendall),
\*     "finally" (an exception or the end of the try block, before line 57),
\*     "done" (handle returned or raised), "gone" (the worker dropped the
\*     future and with it the handler object)
\* exc: the exception raised in handle: "none", "socket" (socket.error, which
\*     is OSError) or "other" (ValueError and its subclasses)
\* faults: the calls that failed while this connection was handled: "recv",
\*     "decode", "resolve" (urlparse or realpath), "stat", "open", "sendall"
InitConn ==
  [sock |-> "none", peer |-> "live", pc |-> "idle", known |-> FALSE,
   req |-> NoRequest, nread |-> 0, buffer |-> <<>>, code |-> 0,
   method |-> None, path |-> None, headers |-> InitHeaders,
   payload |-> <<>>, sent |-> <<>>, wrote |-> FALSE, exc |-> "none",
   faults |-> {}, closes |-> 0]

\* a worker in its accept loop; main has started the workers and waits for
\* the first of them at line 190
Init ==
  /\ lsock = "open"
  /\ wpc = "accept"
  /\ cur = 0
  /\ backlog = <<>>
  /\ acceptErrs = 0
  /\ conn = [c \in Conns |-> InitConn]
  /\ mpc = "join"
  /\ processes = [i \in 1..NumWorkers |-> [popen |-> TRUE, child |-> "running"]]
  /\ idx = 1

(***************************************************************************)
(* The clients and the network.                                            *)
(***************************************************************************)
Connected == {c \in Conns : conn[c].sock # "none"}

\* a client connects; the kernel queues the connection (listen, line 152)
ClientConnect(c) ==
  /\ c = Cardinality(Connected) + 1
  /\ conn[c].sock = "none"
  /\ lsock = "open"
  /\ wpc # "crashed"
  /\ Len(backlog) < request_queue_size
  /\ conn' = [conn EXCEPT ![c].sock = "pending"]
  /\ backlog' = Append(backlog, c)
  /\ UNCHANGED <<lsock, wpc, cur, acceptErrs>>
  /\ UNCHANGED mainvars

Alive(c) == conn[c].sock \in {"pending", "open"}

\* the client stops sending and reading
PeerStall(c) ==
  /\ Alive(c)
  /\ conn[c].peer = "live"
  /\ conn' = [conn EXCEPT ![c].peer = "stalled"]
  /\ UNCHANGED <<lsock, wpc, cur, backlog, acceptErrs>>
  /\ UNCHANGED mainvars

\* the client goes on
PeerResume(c) ==
  /\ Alive(c)
  /\ conn[c].peer = "stalled"
  /\ conn' = [conn EXCEPT ![c].peer = "live"]
  /\ UNCHANGED <<lsock, wpc, cur, backlog, acceptErrs>>
  /\ UNCHANGED mainvars

\* the connection breaks: recv and sendall raise socket.error from now on
PeerReset(c) ==
  /\ Alive(c)
  /\ conn[c].peer # "reset"
  /\ conn' = [conn EXCEPT ![c].peer = "reset"]
  /\ UNCHANGED <<lsock, wpc, cur, backlog, acceptErrs>>
  /\ UNCHANGED mainvars

(***************************************************************************)
(* WebServer.serve_forever, httpd.py lines 158-174.                        *)
(***************************************************************************)
\* an accept loop that submits the handler and accepts again without
\* waiting for it
Accept_eager(c) ==
  /\ wpc \in {"accept", "wait"}
  /\ lsock = "open"
  /\ backlog # <<>>
  /\ c = Head(backlog)
  /\ backlog' = Tail(backlog)
  /\ conn' = [conn EXCEPT ![c].sock = "open", ![c].pc = "reading",
                          ![c].headers = InitHeaders]
  /\ wpc' = "wait"
  /\ cur' = c
  /\ UNCHANGED <<lsock, acceptErrs>>
  /\ UNCHANGED mainvars

\* lines 163-169: accept returns the oldest queued connection and the
\* handler is submitted; the pool thread enters RequestHandler.__init__
Accept(c) ==
  /\ wpc = "accept"
  /\ lsock = "open"
  /\ backlog # <<>>
  /\ c = Head(backlog)
  /\ backlog' = Tail(backlog)
  /\ conn' = [conn EXCEPT ![c].sock = "open", ![c].pc = "reading",
                          ![c].headers = InitHeaders]
  /\ wpc' = "wait"
  /\ cur' = c
  /\ UNCHANGED <<lsock, acceptErrs>>
  /\ UNCHANGED mainvars

\* lines 172-174: accept raises socket.error (always on a closed socket);
\* the failure is logged, the listening socket closed, and the loop goes on
AcceptFail ==
  /\ wpc = "accept"
  /\ acceptErrs < MaxAcceptErrs
  /\ acceptErrs' = acceptErrs + 1
  /\ lsock' = "closed"
  /\ UNCHANGED <<wpc, cur, backlog, conn>>
  /\ UNCHANGED mainvars

\* what is left of a connection once its handler object is unreachable
Dropped(h) ==
  [InitConn EXCEPT !.sock = h.sock, !.peer = h.peer, !.pc = "gone",
                   !.exc = h.exc, !.faults = h.faults, !.wrote = h.wrote,
                   !.closes = h.closes]

\* lines 170-171 and the end of the with block: the future is complete;
\* f.result() re-raises what the handler raised, and only socket.error is
\* caught by line 172
Join ==
  /\ wpc = "wait"
  /\ conn[cur].pc = "done"
  /\ wpc' = IF conn[cur].exc = "other" THEN "crashed" ELSE "accept"
  /\ lsock' = IF conn[cur].exc = "other" THEN "closed" ELSE lsock
  /\ cur' = 0
  /\ conn' = [conn EXCEPT ![cur] = Dropped(conn[cur])]
  /\ UNCHANGED <<backlog, acceptErrs>>
  /\ UNCHANGED mainvars

(***************************************************************************)
(* RequestHandler, httpd.py lines 49-130, one step per blocking call.      *)
(***************************************************************************)
HandlerStep(c, r) ==
  /\ conn' = [conn EXCEPT ![c] = r]
  /\ UNCHANGED <<lsock, wpc, cur, backlog, acceptErrs>>
  /\ UNCHANGED mainvars

\* the request the client of c sends: chosen when the handler first reads
Sends(c, q) == IF conn[c].known THEN q = conn[c].req ELSE TRUE

\* lines 62-68: recv returned val, a chunk of request q; decode may raise
\* UnicodeDecodeError, which is a ValueError
received(h, q, d) ==
  IF ~d.ok
  THEN [h EXCEPT !.known = TRUE, !.req = q, !.nread = @ + 1,
                 !.exc = "other", !.faults = @ \cup {"decode"},
                 !.pc = "finally"]
  ELSE [h EXCEPT !.known = TRUE, !.req = q, !.nread = @ + 1,
                 !.buffer = @ \o d.text,
                 !.pc = IF Find(h.buffer \o d.text, _head_delimiter) > 0
                        THEN "parse" ELSE "reading"]

after_recv(h, q, val) == Let({received(h, q, d) : d \in {decode(val)}})

RecvData(c) ==
  /\ conn[c].pc = "reading"
  /\ conn[c].peer = "live"
  /\ \E q \in Requests :
       /\ Sends(c, q)
       /\ conn[c].nread < Len(q.chunks)
       /\ Len(q.chunks[conn[c].nread + 1]) <= _buffer_size
       /\ HandlerStep(c, after_recv(conn[c], q, q.chunks[conn[c].nread + 1]))

\* lines 62-64: recv returns b"" after the client shut its side down
RecvEof(c) ==
  /\ conn[c].pc = "reading"
  /\ conn[c].peer = "live"
  /\ \E q \in Requests :
       /\ Sends(c, q)
       /\ conn[c].nread = Len(q.chunks)
       /\ q.eof
       /\ HandlerStep(c, [conn[c] EXCEPT !.known = TRUE, !.req = q,
                                         !.pc = "parse"])

\* line 62 raises socket.error, caught by line 54
RecvFail(c) ==
  /\ conn[c].pc = "reading"
  /\ conn[c].peer = "reset"
  /\ HandlerStep(c, [conn[c] EXCEPT !.exc = "socket",
                        !.faults = @ \cup {"recv"}, !.pc = "finally"])

\* line 52: _parse_request returns or raises
parsed_as(h, o) ==
  IF o.raised
  THEN [h EXCEPT !.exc = "other", !.faults = @ \cup {"resolve"},
                 !.pc = "finally"]
  ELSE [h EXCEPT !.code = o.code, !.method = o.method, !.path = o.path,
                 !.headers = o.headers, !.pc = "respond",
                 !.faults = IF o.stat_failed THEN @ \cup {"stat"} ELSE @]

after_parse(h, stat_ok) ==
  Let({parsed_as(h, o) : o \in {_parse_request(h.buffer, h.headers, stat_ok)}})

Parse(c) ==
  /\ conn[c].pc = "parse"
  /\ \E stat_ok \in BOOLEAN : HandlerStep(c, after_parse(conn[c], stat_ok))

\* lines 106-117: the response is built; open may raise OSError, which is
\* socket.error and caught by line 54
after_build(h, open_ok) ==
  IF ~WantsBody(h.code, h.method)
  THEN [h EXCEPT !.pc = "sending",
                 !.payload = Payload(resp_head(h.code, h.headers), <<>>)]
  ELSE IF open_ok
  THEN [h EXCEPT !.pc = "sending",
                 !.payload = Payload(resp_head(h.code, h.headers),
                                     _get_response_body(h.path, h.headers))]
  ELSE [h EXCEPT !.exc = "socket", !.faults = @ \cup {"open"},
                 !.pc = "finally"]

BuildResponse(c) ==
  /\ conn[c].pc = "respond"
  /\ \E open_ok \in BOOLEAN : HandlerStep(c, after_build(conn[c], open_ok))

\* line 119: sendall writes the whole payload
Sendall(c) ==
  /\ conn[c].pc = "sending"
  /\ conn[c].peer = "live"
  /\ HandlerStep(c, [conn[c] EXCEPT !.sent = Append(@, conn[c].payload),
                                    !.wrote = TRUE, !.pc = "finally"])

\* lines 119-121: sendall raises socket.error, logged by _send_response
SendallFail(c) ==
  /\ conn[c].pc = "sending"
  /\ conn[c].peer = "reset"
  /\ HandlerStep(c, [conn[c] EXCEPT !.sent = Append(@, conn[c].payload),
                        !.faults = @ \cup {"sendall"}, !.pc = "finally"])

\* close at the end of the try block instead of in a finally clause
finally_close_tryonly(h) ==
  IF h.exc = "none"
  THEN [h EXCEPT !.sock = "closed", !.closes = @ + 1, !.peer = "gone",
                 !.pc = "done"]
  ELSE [h EXCEPT !.peer = "gone", !.pc = "done"]

\* lines 56-57: the finally clause closes the socket, whatever was raised
finally_close(h) ==
  [h EXCEPT !.sock = "closed", !.closes = @ + 1, !.peer = "gone",
            !.pc = "done"]

Finally(c) ==
  /\ conn[c].pc = "finally"
  /\ HandlerStep(c, finally_close(conn[c]))

Handler(c) ==
  \/ RecvData(c)
  \/ RecvEof(c)
  \/ RecvFail(c)
  \/ Parse(c)
  \/ BuildResponse(c)
  \/ Sendall(c)
  \/ SendallFail(c)
  \/ Finally(c)

Worker == (\E c \in Conns : Accept(c)) \/ AcceptFail \/ Join

Next ==
  \/ \E c \in Conns : ClientConnect(c)
  \/ \E c \in Conns : PeerStall(c)
  \/ \E c \in Conns : PeerResume(c)
  \/ \E c \in Conns : PeerReset(c)
  \/ \E c \in Conns : Accept(c)
  \/ AcceptFail
  \/ Join
  \/ \E c \in Conns : RecvData(c)
  \/ \E c \in Conns : RecvEof(c)
  \/ \E c \in Conns : RecvFail(c)
  \/ \E c \in Conns : Parse(c)
  \/ \E c \in Conns : BuildResponse(c)
  \/ \E c \in Conns : Sendall(c)
  \/ \E c \in Conns : SendallFail(c)
  \/ \E c \in Conns : Finally(c)

Spec == Init /\ [][Next]_vars

\* The worker and the handler threads are scheduled fairly; the clients are
\* not obliged to do anything.  A handler blocked in recv or sendall goes on
\* once its peer has gone on, even when the peer stalls again later: the
\* kernel keeps what the peer sent, hence strong fairness for the handlers.
FairSpec ==
  /\ Spec
  /\ WF_vars(Worker)
  /\ \A c \in Conns : SF_vars(Handler(c))

(***************************************************************************)
(* Vocabulary of the properties.                                           *)
(***************************************************************************)
\* _parse_request has returned for connection c
Parsed(c) == conn[c].code # 0

\* the tokens of the first line of the request c's handler read
Line(c) == RequestLine(conn[c].buffer)

\* the method token of that line, None when the line is empty
Method(c) == IF Line(c) = <<>> THEN None ELSE Line(c)[1]

\* the payloads handed to sendall for c, and the one about to be handed
Handed(c) ==
  {conn[c].sent[i] : i \in 1..Len(conn[c].sent)}
  \cup (IF conn[c].pc = "sending" THEN {conn[c].payload} ELSE {})

StatusLine(p) == p[1]

\* the value of the Content-Length header line of a payload
ContentLength(p) ==
  {n \in 0..(MaxFileSize + 1) : InSeq("Content-Length: " \o ToString(n), HeadOf(p))}

\* the path looked up for a target, from the steps of httpd.py lines 83-86
DecodedPath(url) == unquote(urlparse_path(url).path)

LookupPath(url) ==
  Let({document_root
       \o abspath(IF EndsWith(d, <<"/">>) THEN d \o <<"index.html">> ELSE d)
       : d \in {DecodedPath(url)}})

RegularFile(p) ==
  abspath(p) \in DOMAIN FileSystem /\ FileSystem[abspath(p)].kind = "file"

FileData(p) == FileSystem[abspath(p)].data

\* a status line, the five header lines in order, the blank line
WellFormed(p) ==
  /\ Len(p) >= 20
  /\ StatusLine(p) \in {"HTTP/1.0 200 OK", "HTTP/1.0 404 Not Found",
                        "HTTP/1.0 405 Method Not Allowed"}
  /\ \A i \in 1..5 : SubSeq(p, 3 * i - 1, 3 * i) = <<"\r", "\n">>
  /\ p[4] \in {"Content-Type: text/html", "Content-Type: text/plain"}
  /\ \E n \in 0..MaxFileSize : p[7] = "Content-Length: " \o ToString(n)
  /\ p[10] = "Connection: close"
  /\ p[13] = "Server: CustomWebServer"
  /\ p[16] = "Date: utcnow"
  /\ SubSeq(p, 17, 20) = <<"\r", "\n", "\r", "\n">>

(***************************************************************************)
(* C1.  A slow client never keeps the worker from accepting another        *)
(* connection: a connection waiting in the backlog is eventually accepted  *)
(* (unless the listening socket is closed), whatever the clients of the    *)
(* connections accepted before it do.  Stated for fair scheduling of the   *)
(* worker and of the handler threads.                                      *)
(***************************************************************************)
C1_PendingIsAccepted ==
  \A b \in Conns :
    (conn[b].sock = "pending") ~> (conn[b].sock # "pending" \/ lsock = "closed")

(***************************************************************************)
(* C2.  Every accepted socket is closed exactly once, on every path        *)
(* through handle(): never more than once, and once the handler is done.   *)
(***************************************************************************)
C2_ClosedExactlyOnce ==
  \A c \in Conns :
    /\ conn[c].closes <= 1
    /\ conn[c].pc \in {"done", "gone"} => conn[c].closes = 1
    /\ conn[c].sock = "closed" <=> conn[c].closes = 1
    /\ conn[c].closes = 1 => conn[c].pc \in {"done", "gone"}

\* a handler that ended with an exception other than socket.error has
\* closed its socket
C2_Witness ==
  \E c \in Conns :
    conn[c].pc = "done" /\ conn[c].exc = "other" /\ conn[c].closes = 1

(***************************************************************************)
(* C3.  No failure raised while a connection is handled ends the worker's  *)
(* accept loop: the worker never leaves serve_forever, and its listening   *)
(* socket is closed by nothing but a failed accept.                        *)
(***************************************************************************)
C3_WorkerSurvivesHandlers ==
  /\ wpc # "crashed"
  /\ lsock = "closed" => acceptErrs > 0

(***************************************************************************)
(* C4.  When a handler is done, either one well-formed response was handed *)
(* to sendall in a single call, or nothing was and a socket read or write  *)
(* had failed.                                                             *)
(***************************************************************************)
C4_ResponseOrSocketFailure ==
  \A c \in Conns :
    conn[c].pc = "done" =>
      \/ Len(conn[c].sent) = 1 /\ WellFormed(conn[c].sent[1])
      \/ conn[c].sent = <<>> /\ conn[c].faults \cap {"recv", "sendall"} # {}

(***************************************************************************)
(* C5.  A request line of three tokens whose method is not exactly GET or  *)
(* HEAD gets status 405 and an empty body, whatever the target, and the    *)
(* response is handed to sendall.                                          *)
(***************************************************************************)
C5_OtherMethod405 ==
  \A c \in Conns :
    (Parsed(c) /\ Len(Line(c)) = 3 /\ Line(c)[1] \notin {<<"GET">>, <<"HEAD">>})
    => /\ conn[c].code = 405
       /\ \A p \in Handed(c) :
            /\ StatusLine(p) = "HTTP/1.0 405 Method Not Allowed"
            /\ BodyOf(p) = <<>>
       /\ conn[c].pc = "done" => Len(conn[c].sent) = 1

\* the lower-case method get was answered
C5_Witness ==
  \E c \in Conns :
    /\ conn[c].pc = "done" /\ Parsed(c) /\ Len(Line(c)) = 3
    /\ Line(c)[1] = <<"get">>
    /\ Len(conn[c].sent) = 1

(***************************************************************************)
(* C6.  A request whose first line does not split into exactly three       *)
(* tokens (the empty request included) gets a 405 response with an empty   *)
(* body, handed to sendall.                                                *)
(***************************************************************************)
C6_Malformed405 ==
  \A c \in Conns :
    (Parsed(c) /\ Len(Line(c)) # 3)
    => /\ conn[c].code = 405
       /\ \A p \in Handed(c) :
            /\ StatusLine(p) = "HTTP/1.0 405 Method Not Allowed"
            /\ BodyOf(p) = <<>>
       /\ conn[c].pc = "done" => Len(conn[c].sent) = 1

\* a line of four tokens was answered
C6_Witness ==
  \E c \in Conns :
    /\ conn[c].pc = "done" /\ Parsed(c) /\ Len(Line(c)) = 4
    /\ conn[c].wrote

(***************************************************************************)
(* C7.  A GET or HEAD request whose looked-up path is not an existing      *)
(* regular file gets status 404, Content-Length 0 and no body.             *)
(***************************************************************************)
C7_NotFound404 ==
  \A c \in Conns :
    (/\ Parsed(c) /\ Len(Line(c)) = 3
     /\ Line(c)[1] \in {<<"GET">>, <<"HEAD">>}
     /\ ~RegularFile(LookupPath(Line(c)[2])))
    => /\ conn[c].code = 404
       /\ \A p \in Handed(c) :
            /\ StatusLine(p) = "HTTP/1.0 404 Not Found"
            /\ ContentLength(p) = {0}
            /\ BodyOf(p) = <<>>
       /\ conn[c].pc = "done" => Len(conn[c].sent) = 1

\* a GET for a directory was answered
C7_Witness ==
  \E c \in Conns :
    /\ conn[c].pc = "done" /\ conn[c].wrote
    /\ Method(c) = <<"GET">>
    /\ conn[c].path = <<".", "/", "d">>

(***************************************************************************)
(* C8.  As claimed: a GET whose decoded target path ends in "/" is looked  *)
(* up with index.html appended, and if that is a regular file the status   *)
(* is 200 and the body is the file's bytes.                                *)
(***************************************************************************)
IndexRequest(c) ==
  /\ Parsed(c) /\ Len(Line(c)) = 3
  /\ Line(c)[1] = <<"GET">>
  /\ EndsWith(DecodedPath(Line(c)[2]), <<"/">>)
  /\ RegularFile(LookupPath(Line(c)[2]))

C8_IndexAlways200 ==
  \A c \in Conns :
    IndexRequest(c)
    => /\ conn[c].code = 200
       /\ conn[c].path = LookupPath(Line(c)[2])
       /\ \A p \in Handed(c) : BodyOf(p) = FileData(LookupPath(Line(c)[2]))

(***************************************************************************)
(* C8, amended.  The same when the size of the file can be determined:     *)
(* then the status is 200, the path is the target's with index.html        *)
(* appended, and the body handed to sendall is the file's bytes; a         *)
(* response is handed to sendall unless the file cannot be opened.         *)
(***************************************************************************)
C8_Index200 ==
  \A c \in Conns :
    (IndexRequest(c) /\ "stat" \notin conn[c].faults)
    => /\ conn[c].code = 200
       /\ conn[c].path = LookupPath(Line(c)[2])
       /\ \A p \in Handed(c) :
            /\ StatusLine(p) = "HTTP/1.0 200 OK"
            /\ BodyOf(p) = FileData(LookupPath(Line(c)[2]))
       /\ (conn[c].pc = "done" /\ "open" \notin conn[c].faults)
            => Len(conn[c].sent) = 1

\* GET /d/ was answered with the two bytes of d/index.html
C8_Witness ==
  \E c \in Conns :
    /\ conn[c].pc = "done" /\ conn[c].wrote
    /\ IndexRequest(c)
    /\ Line(c)[2] = <<"/", "d", "/">>
    /\ BodyOf(conn[c].sent[1]) = <<"h", "i">>

(***************************************************************************)
(* C9.  A payload has a body only for a GET answered 200; for HEAD and for *)
(* every other status it ends with the blank line after the headers.       *)
(***************************************************************************)
C9_BodyOnlyForGet200 ==
  \A c \in Conns :
    \A p \in Handed(c) :
      /\ BodyOf(p) # <<>>
           => Method(c) = <<"GET">> /\ StatusLine(p) = "HTTP/1.0 200 OK"
      /\ (Method(c) # <<"GET">> \/ StatusLine(p) # "HTTP/1.0 200 OK")
           => EndsWith(p, <<"\r", "\n", "\r", "\n">>) /\ p = HeadOf(p)

\* a HEAD for the 11-byte index.html was answered 200 without a body
C9_Witness ==
  \E c \in Conns :
    /\ conn[c].wrote /\ conn[c].pc = "done"
    /\ Method(c) = <<"HEAD">>
    /\ StatusLine(conn[c].sent[1]) = "HTTP/1.0 200 OK"
    /\ ContentLength(conn[c].sent[1]) = {11}
    /\ BodyOf(conn[c].sent[1]) = <<>>

(***************************************************************************)
(* C10.  Content-Length is the size of the file for every 200 payload, the *)
(* body of a 200 GET is exactly that many bytes, the file's, and           *)
(* Content-Length is 0 for every 404 and 405 payload.                      *)
(***************************************************************************)
C10_ContentLength ==
  \A c \in Conns :
    \A p \in Handed(c) :
      /\ Cardinality(ContentLength(p)) = 1
      /\ StatusLine(p) = "HTTP/1.0 200 OK"
           => /\ RegularFile(conn[c].path)
              /\ ContentLength(p) = {Len(FileData(conn[c].path))}
              /\ Method(c) = <<"GET">>
                   => /\ ContentLength(p) = {Len(BodyOf(p))}
                      /\ BodyOf(p) = FileData(conn[c].path)
      /\ StatusLine(p) # "HTTP/1.0 200 OK"
           => /\ StatusLine(p) \in {"HTTP/1.0 404 Not Found",
                                    "HTTP/1.0 405 Method Not Allowed"}
              /\ ContentLength(p) = {0}

\* a GET was answered 200 with Content-Length 11 and the 11 bytes
C10_Witness ==
  \E c \in Conns :
    /\ conn[c].pc = "done" /\ conn[c].wrote
    /\ Method(c) = <<"GET">>
    /\ ContentLength(conn[c].sent[1]) = {11}
    /\ BodyOf(conn[c].sent[1]) = HelloWorld

(***************************************************************************)
(* C11.  After accept has failed the worker does not call accept on its    *)
(* listening socket again.  The failure closes the socket and every accept *)
(* on a closed socket fails, so a second failed accept is a retry: at most *)
(* one accept fails in the life of a worker.                               *)
(***************************************************************************)
C11_NoAcceptAfterFailure == acceptErrs <= 1

(***************************************************************************)
(* C12.  A request whose bytes cannot be decoded as UTF-8 is answered like *)
(* a malformed request line: when the handler is done, one 405 response    *)
(* with an empty body was handed to sendall and the socket is closed.      *)
(***************************************************************************)
C12_UndecodableIs405 ==
  \A c \in Conns :
    (conn[c].pc = "done" /\ "decode" \in conn[c].faults)
    => /\ Len(conn[c].sent) = 1
       /\ StatusLine(conn[c].sent[1]) = "HTTP/1.0 405 Method Not Allowed"
       /\ BodyOf(conn[c].sent[1]) = <<>>
       /\ conn[c].sock = "closed"

(***************************************************************************)
(* C13.  The path that is looked up is the path component of the percent-  *)
(* decoded target, path_component(percent_decode(target)), with index.html *)
(* appended after a final "/", made canonical and put after the document   *)
(* root: so for every GET or HEAD answered 200 or 404.                     *)
(***************************************************************************)
PathOfDecoded(url) == urlparse_path(unquote(url)).path

C13_DecodeThenPath ==
  \A c \in Conns :
    (/\ Parsed(c) /\ Len(Line(c)) = 3
     /\ Line(c)[1] \in {<<"GET">>, <<"HEAD">>}
     /\ conn[c].code \in {200, 404})
    => conn[c].path
         = document_root \o abspath(WithIndex(PathOfDecoded(Line(c)[2])))

(***************************************************************************)
(* main, httpd.py lines 177-194: the top-level process starts the workers, *)
(* joins them, and on KeyboardInterrupt terminates the processes of its    *)
(* list.  A worker is seen from outside here: its process runs or not.     *)
(* Process.start (line 187) forks the child and then stores the child's    *)
(* handle in the Process object; Process.terminate, called on an object    *)
(* without a handle, raises AttributeError.                                *)
(***************************************************************************)
MainInit ==
  /\ lsock = "open"
  /\ wpc = "accept"
  /\ cur = 0
  /\ backlog = <<>>
  /\ acceptErrs = 0
  /\ conn = [c \in Conns |-> InitConn]
  /\ mpc = "create"
  /\ processes = <<>>
  /\ idx = 1

\* lines 180-186: a server and its Process object are made and appended
Create ==
  /\ mpc = "create"
  /\ Len(processes) < NumWorkers
  /\ processes' = Append(processes, [popen |-> FALSE, child |-> "none"])
  /\ mpc' = "start"
  /\ UNCHANGED idx
  /\ UNCHANGED workervars

\* line 187, first half: the child process is forked and runs serve_forever
StartFork ==
  /\ mpc = "start"
  /\ processes' = [processes EXCEPT ![Len(processes)].child = "running"]
  /\ mpc' = "record"
  /\ UNCHANGED idx
  /\ UNCHANGED workervars

\* line 187, second half, and line 180: the handle is stored; the loop goes
\* on, or ends and the loop of line 189 begins
StartRecord ==
  /\ mpc = "record"
  /\ processes' = [processes EXCEPT ![Len(processes)].popen = TRUE]
  /\ mpc' = IF Len(processes) < NumWorkers THEN "create" ELSE "join"
  /\ idx' = 1
  /\ UNCHANGED workervars

\* a worker process ends by itself (an exception left serve_forever)
ChildExit(i) ==
  /\ i \in 1..Len(processes)
  /\ processes[i].child = "running"
  /\ processes' = [processes EXCEPT ![i].child = "exited"]
  /\ UNCHANGED <<mpc, idx>>
  /\ UNCHANGED workervars

\* lines 189-190: join returns once the process has ended
JoinProcess ==
  /\ mpc = "join"
  /\ processes[idx].child # "running"
  /\ idx' = idx + 1
  /\ mpc' = IF idx = Len(processes) THEN "returned" ELSE "join"
  /\ UNCHANGED processes
  /\ UNCHANGED workervars

\* line 191: the interrupt signal raises KeyboardInterrupt in the try block
Interrupt ==
  /\ mpc \in {"create", "start", "record", "join"}
  /\ mpc' = "except"
  /\ idx' = 1
  /\ UNCHANGED processes
  /\ UNCHANGED workervars

\* the state of a child after SIGTERM
terminated(child) == IF child = "running" THEN "terminated" ELSE child

\* lines 192-194: terminate sends SIGTERM to the child of the next process
Terminate ==
  /\ mpc = "except"
  /\ idx <= Len(processes)
  /\ processes[idx].popen
  /\ processes' = [processes EXCEPT ![idx].child = terminated(@)]
  /\ idx' = idx + 1
  /\ UNCHANGED mpc
  /\ UNCHANGED workervars

\* line 194: terminate raises AttributeError on a process without a handle
TerminateRaises ==
  /\ mpc = "except"
  /\ idx <= Len(processes)
  /\ ~processes[idx].popen
  /\ mpc' = "aborted"
  /\ UNCHANGED <<processes, idx>>
  /\ UNCHANGED workervars

\* the loop of line 192 is over and main returns
ExceptDone ==
  /\ mpc = "except"
  /\ idx > Len(processes)
  /\ mpc' = "stopped"
  /\ UNCHANGED <<processes, idx>>
  /\ UNCHANGED workervars

MainNext ==
  \/ Create
  \/ StartFork
  \/ StartRecord
  \/ \E i \in 1..NumWorkers : ChildExit(i)
  \/ JoinProcess
  \/ Interrupt
  \/ Terminate
  \/ TerminateRaises
  \/ ExceptDone

MainSpec == MainInit /\ [][MainNext]_vars

(***************************************************************************)
(* C14.  Once main has dealt with an interrupt signal, whenever in the     *)
(* start-up or the joining it arrived, no worker process that was started  *)
(* is left running.                                                        *)
(***************************************************************************)
C14_InterruptStopsWorkers ==
  mpc \in {"stopped", "aborted"}
  => \A i \in 1..Len(processes) : processes[i].child # "running"

(***************************************************************************)
(* C15.  Every connection handed to a handler is eventually closed, from   *)
(* every state of the handler (reading, parsed, responding, sending) and   *)
(* whatever the client does.  Stated for fair scheduling of the handler's  *)
(* steps (strong fairness, which implies the weak fairness of the claim).  *)
(***************************************************************************)
C15_HandlerCloses ==
  \A c \in Conns : (conn[c].sock = "open") ~> (conn[c].sock = "closed")

\* what the handler of c has been handed by recv so far, decoded
ReadSoFar(c) == decode(Flatten(SubSeq(conn[c].req.chunks, 1, conn[c].nread))).text

\* the same before the last recv
ReadBefore(c) ==
  decode(Flatten(SubSeq(conn[c].req.chunks, 1, conn[c].nread - 1))).text

\* recv returned empty data: the client sent everything and shut down
EofReturned(c) ==
  conn[c].nread = Len(conn[c].req.chunks) /\ conn[c].req.eof

\* the bytes recv has handed to the handler of c so far
HandedBytes(c) == Flatten(SubSeq(conn[c].req.chunks, 1, conn[c].nread))

(***************************************************************************)
(* C16: the read loop appends each chunk of at most _buffer_size bytes to  *)
(* the buffer and stops exactly when the accumulated buffer contains       *)
(* CRLF CRLF or a recv returns zero bytes: a handler whose recv calls all  *)
(* returned has left the loop only if the terminator is among the bytes it *)
(* was handed or the client closed, and what it was handed is in the       *)
(* buffer.                                                                 *)
(***************************************************************************)
C16_StopsAtTerminatorOrEof ==
  \A c \in Conns :
    (conn[c].known /\ "recv" \notin conn[c].faults)
    => /\ conn[c].pc = "reading"
          => Find(conn[c].buffer, _head_delimiter) = 0
       /\ conn[c].pc # "reading"
          => /\ \/ Find(HandedBytes(c), _head_delimiter) > 0
                \/ EofReturned(c)
             /\ decode(HandedBytes(c)).ok
                => conn[c].buffer = decode(HandedBytes(c)).text

(***************************************************************************)
(* What the read loop of lines 59-69 does guarantee, on chunks that each   *)
(* decode on their own: the buffer is the decoded text handed so far, it   *)
(* holds no terminator while the loop reads, and when the handler goes on  *)
(* to parse the terminator arrived with the last chunk (however it was     *)
(* split) or recv returned empty data.                                     *)
(***************************************************************************)
ReadLoopOnDecodableChunks ==
  \A c \in Conns :
    (conn[c].known /\ "decode" \notin conn[c].faults)
    => /\ conn[c].buffer = ReadSoFar(c)
       /\ \A k \in 1..conn[c].nread :
            Len(conn[c].req.chunks[k]) <= _buffer_size
       /\ conn[c].pc = "reading"
          => Find(conn[c].buffer, _head_delimiter) = 0
       /\ conn[c].pc = "parse"
          => \/ /\ Find(conn[c].buffer, _head_delimiter) > 0
                /\ conn[c].nread > 0
                /\ Find(ReadBefore(c), _head_delimiter) = 0
             \/ /\ Find(conn[c].buffer, _head_delimiter) = 0
                /\ EofReturned(c)

(***************************************************************************)
(* C17.  When the path looked up is a regular file whose size cannot be    *)
(* determined (getsize raises after isfile succeeded), the outcome is 405  *)
(* with no method and no path, and every payload handed to sendall is a    *)
(* 405 with Content-Length 0 and an empty body.                            *)
(***************************************************************************)
C17_StatFailure405 ==
  \A c \in Conns :
    (Parsed(c) /\ "stat" \in conn[c].faults)
    => /\ RegularFile(LookupPath(Line(c)[2]))
       /\ conn[c].code = NOT_ALLOWED
       /\ conn[c].method = None
       /\ conn[c].path = None
       /\ \A p \in Handed(c) :
            /\ StatusLine(p) = "HTTP/1.0 405 Method Not Allowed"
            /\ ContentLength(p) = {0}
            /\ BodyOf(p) = <<>>

\* a GET of an existing file whose stat failed was answered 405, no body
C17_Witness ==
  \E c \in Conns :
    /\ conn[c].pc = "done" /\ conn[c].wrote
    /\ "stat" \in conn[c].faults
    /\ Method(c) = <<"GET">>
    /\ StatusLine(conn[c].sent[1]) = "HTTP/1.0 405 Method Not Allowed"
    /\ ContentLength(conn[c].sent[1]) = {0}

(***************************************************************************)
(* C18.  The status of every response handed to sendall is 200, 404 or     *)
(* 405, and the outcome of _parse_request is never 403: not for a          *)
(* directory, a missing file or a file whose stat fails, and a file that   *)
(* cannot be opened gets no response at all.                               *)
(***************************************************************************)
C18_Never403 ==
  \A c \in Conns :
    /\ conn[c].code \in {0, OK, NOT_FOUND, NOT_ALLOWED}
    /\ \A p \in Handed(c) :
         /\ StatusLine(p) \in {"HTTP/1.0 200 OK", "HTTP/1.0 404 Not Found",
                               "HTTP/1.0 405 Method Not Allowed"}
         /\ StatusLine(p) = primary_line(conn[c].code)
    /\ "open" \in conn[c].faults => ~conn[c].wrote

\* a file that could not be opened got no response, and the next client,
\* asking for a directory, was answered 404
C18_Witness ==
  \E c, d \in Conns :
    /\ "open" \in conn[c].faults /\ ~conn[c].wrote /\ conn[c].pc = "gone"
    /\ conn[d].pc = "done" /\ conn[d].wrote
    /\ StatusLine(conn[d].sent[1]) = "HTTP/1.0 404 Not Found"
    /\ Line(d)[2] = <<"/", "d">>

\* the accepted sockets that are open in the worker
OpenSockets == {c \in Conns : conn[c].sock = "open"}

(***************************************************************************)
(* C19.  In a worker at most one accepted connection is open at any time:  *)
(* an open accepted socket is the one whose handler the worker waits for,  *)
(* and whenever the loop is about to call accept every accepted socket has *)
(* been closed by its handler.                                             *)
(***************************************************************************)
C19_OneConnectionAtATime ==
  /\ Cardinality(OpenSockets) <= 1
  /\ \A c \in OpenSockets : wpc = "wait" /\ cur = c
  /\ wpc = "accept"
     => \A c \in Conns :
          /\ conn[c].sock # "open"
          /\ conn[c].pc \in {"idle", "gone"}

\* a handler holds its socket open while a second client waits, connected
\* but not accepted
C19_Witness ==
  \E c, d \in Conns :
    /\ c # d
    /\ conn[c].sock = "open" /\ conn[c].pc = "sending"
    /\ wpc = "wait"
    /\ backlog = <<d>>
    /\ conn[d].sock = "pending"

\* what follows the document root in the path c's handler looked up
AfterRoot(c) ==
  SubSeq(conn[c].path, Len(document_root) + 1, Len(conn[c].path))

\* an absolute path whose segments are all names: none is empty, "." or ".."
NamesOnly(p) ==
  /\ StartsWith(p, <<"/">>)
  /\ \/ p = <<"/">>
     \/ \A seg \in {SplitSep(From(p, 2), <<"/">>)[k]
                    : k \in 1..Len(SplitSep(From(p, 2), <<"/">>))} :
          seg # <<>> /\ ~IsDot(seg) /\ ~IsDotDot(seg)

(***************************************************************************)
(* C20.  For every request target the path tested by isfile and served is  *)
(* the document root string followed by an absolute, normalized path with  *)
(* no "." or ".." segment: the document root is a textual prefix of every  *)
(* path looked up, whatever ".." segments the target holds.                *)
(***************************************************************************)
C20_PathUnderRoot ==
  \A c \in Conns :
    (Parsed(c) /\ conn[c].path # None)
    => /\ StartsWith(conn[c].path, document_root)
       /\ NamesOnly(AfterRoot(c))

\* a target that climbs two levels above the root was served the file of
\* that name inside the root
C20_Witness ==
  \E c \in Conns :
    /\ conn[c].pc = "done" /\ conn[c].wrote
    /\ StatusLine(conn[c].sent[1]) = "HTTP/1.0 200 OK"
    /\ Line(c)[2] = <<"/", "..", "/", "..", "/", "e.txt">>
    /\ conn[c].path = document_root \o <<"/", "e.txt">>

====
